---- MODULE Spec2Model ----
(***************************************************************************)
(* The reducer of the document terminal viewer                             *)
(* (document-terminal-viewer.reducer.js) as a state machine.               *)
(*                                                                         *)
(* JavaScript objects are functions with a domain of strings; a property   *)
(* that is absent (reads as undefined) is a key outside the domain.        *)
(* Arrays are sequences, strings are strings.  The value undefined and a   *)
(* thrown TypeError are two distinguished records.                         *)
(*                                                                         *)
(* The prompt viewer's reducer, folded after this one, owns the command    *)
(* line's own subtree and is left out.                                     *)
(***************************************************************************)
EXTENDS Integers, Sequences, FiniteSets, TLC

VARIABLE state   \* the store's value for this viewer: a TranscriptState, or undefined

vars == <<state>>

\* ---------------------------------------------------------------- bounds
MaxItems == 2

\* ------------------------------------------------------- JavaScript values
undefined == [jsType |-> "undefined"]
TypeError == [jsType |-> "TypeError"]
EmptyObj == [k \in {} |-> TRUE]

Has(obj, k) == k \in DOMAIN obj

\* seamless-immutable: obj.set(k, v) returns a copy of obj with k bound to v
set(obj, k, v) == [y \in DOMAIN obj \cup {k} |-> IF y = k THEN v ELSE obj[y]]

\* seamless-immutable: obj.without(k); removing an absent key changes nothing
without(obj, k) == [y \in DOMAIN obj \ {k} |-> obj[y]]

\* {..., k: src[sk]} where a missing src[sk] leaves k undefined
withProp(obj, k, src, sk) == IF Has(src, sk) THEN set(obj, k, src[sk]) ELSE obj

\* a string is truthy unless it is empty
Truthy(s) == s # ""

\* _.last(array)
last(items) == IF Len(items) = 0 THEN undefined ELSE items[Len(items)]

\* array.pop() on a copy: the array without its last element ([] stays [])
pop(items) == IF Len(items) = 0 THEN items ELSE SubSeq(items, 1, Len(items) - 1)

\* ------------------------------------------------------ text conversion
\* textUtil.fromAsciiToHtml and the converter of getAsciiToHtmlStream: the
\* external text -> html rendering, kept distinguishable from its input
fromAsciiToHtml(text) == "<span>" \o text \o "</span>"

toHtml(line) == "<span>" \o line \o "</span>"

\* text.split('\n')
RECURSIVE split(_)
split(text) ==
  LET n == Len(text)
      nl == {i \in 1..n : SubSeq(text, i, i) = "\n"}
  IN IF nl = {} THEN <<text>>
     ELSE LET i == CHOOSE j \in nl : \A k \in nl : j <= k
          IN <<SubSeq(text, 1, i - 1)>> \o split(SubSeq(text, i + 1, n))

\* lines.join('\n')
RECURSIVE join(_)
join(lines) ==
  IF Len(lines) = 0 THEN ""
  ELSE IF Len(lines) = 1 THEN lines[1]
  ELSE lines[1] \o "\n" \o join(Tail(lines))

\* ------------------------------------------------------ history log
addHistoryItem(s, item) == set(s, "items", s.items \o <<item>>)

removeLastHistoryItem(s) == set(s, "items", pop(s.items))

\* _.toNumber(value) for a string of decimal digits
digit(c) ==
  CASE c = "0" -> 0 [] c = "1" -> 1 [] c = "2" -> 2 [] c = "3" -> 3 [] c = "4" -> 4
    [] c = "5" -> 5 [] c = "6" -> 6 [] c = "7" -> 7 [] c = "8" -> 8 [] c = "9" -> 9

RECURSIVE toNumber(_)
toNumber(value) ==
  IF Len(value) = 0 THEN 0
  ELSE 10 * toNumber(SubSeq(value, 1, Len(value) - 1))
       + digit(SubSeq(value, Len(value), Len(value)))

\* ------------------------------------------------- protocol message handlers
\* _.get(result, 'content'), an absent content reading as an object without fields
contentOf(result) == IF Has(result, "content") THEN result.content ELSE EmptyObj

display_data(s, result) ==
  LET content == contentOf(result)
  IN IF Has(content, "data")
     THEN addHistoryItem(s, [data |-> content.data, type |-> "annotation"])
     ELSE s

\* the updater handed to updateIn(['actives', responseMsgId], ...): the copy made
\* by active.set('errors', ...) is dropped and the entry itself is returned
errorUpdater(active, name, value, traceback) ==
  LET errors == IF Has(active, "errors") THEN active.errors ELSE <<>>
      copy == set(active, "errors", errors \o <<name, value, traceback>>)
  IN active

error(s, result) ==
  LET content == contentOf(result)
      responseMsgId == result.parent_header.msg_id
  IN IF ~Has(content, "traceback") THEN TypeError   \* traceback.map of undefined
     ELSE
       LET name == IF Has(content, "ename") THEN content.ename ELSE undefined
           value == IF Has(content, "evalue") THEN content.evalue ELSE undefined
           traceback == content.traceback
           stacktrace == [i \in 1..Len(traceback) |-> toHtml(traceback[i])]
           item == withProp(withProp(
                     [stacktrace |-> stacktrace, traceback |-> traceback,
                      type |-> "pythonError"],
                     "name", content, "ename"), "value", content, "evalue")
           s1 == addHistoryItem(s, item)
       IN IF Has(s1.actives, responseMsgId)
          THEN set(s1, "actives",
                   set(s1.actives, responseMsgId,
                       errorUpdater(s1.actives[responseMsgId], name, value, traceback)))
          ELSE s1

\* prompt decoration that repeats promptLabel on every line
promptedTextOneLabel(s, code) ==
  IF Has(s, "promptLabel") /\ Truthy(s.promptLabel)
  THEN LET lines == split(code)
       IN join([index \in 1..Len(lines) |-> s.promptLabel \o lines[index]])
  ELSE code

\* the text execute_input hands to the markup rendering
promptedText(s, code) ==
  IF Has(s, "promptLabel") /\ Truthy(s.promptLabel)
  THEN LET lines == split(code)
           continue == IF Has(s, "continueLabel") /\ Truthy(s.continueLabel)
                       THEN s.continueLabel ELSE s.promptLabel
       IN join([index \in 1..Len(lines) |->
                  IF index = 1 THEN s.promptLabel \o lines[index]
                  ELSE continue \o lines[index]])
  ELSE code

execute_input(s, result) ==
  LET content == contentOf(result)
  IN IF Has(s, "promptLabel") /\ Truthy(s.promptLabel) /\ ~Has(content, "code")
     THEN TypeError   \* text.split of undefined
     ELSE addHistoryItem(s, withProp(
            [html |-> fromAsciiToHtml(promptedText(s, content.code)), type |-> "text"],
            "source", content, "name"))

execute_result(s, result) ==
  LET content == contentOf(result)
  IN IF Has(content, "data")
     THEN LET data == content.data
          IN IF Has(data, "text/plain") /\ Truthy(data["text/plain"])
             THEN addHistoryItem(s, [html |-> fromAsciiToHtml(data["text/plain"]),
                                     source |-> "stdout", type |-> "text"])
             ELSE addHistoryItem(s, [data |-> data, type |-> "annotation"])
     ELSE s

execute_reply(s, result) == s

\* status that never retires a request: only "busy" touches actives
statusKeepsActive(s, result) ==
  LET content == contentOf(result)
      responseMsgId == result.parent_header.msg_id
      s1 == IF Has(content, "execution_state") /\ content.execution_state = "busy"
            THEN set(s, "actives", set(s.actives, responseMsgId, EmptyObj))
            ELSE s
  IN addHistoryItem(s1, [type |-> "pageBreak"])

\* status that marks a page break only when actives changed
statusBreaksOnChange(s, result) ==
  LET content == contentOf(result)
      responseMsgId == result.parent_header.msg_id
      s1 == IF Has(content, "execution_state") /\ content.execution_state = "busy"
            THEN set(s, "actives", set(s.actives, responseMsgId, EmptyObj))
            ELSE set(s, "actives", without(s.actives, responseMsgId))
  IN IF s1 = s THEN s ELSE addHistoryItem(s1, [type |-> "pageBreak"])

status(s, result) ==
  LET content == contentOf(result)
      responseMsgId == result.parent_header.msg_id
      s1 == IF Has(content, "execution_state") /\ content.execution_state = "busy"
            THEN set(s, "actives", set(s.actives, responseMsgId, EmptyObj))
            ELSE set(s, "actives", without(s.actives, responseMsgId))
  IN addHistoryItem(s1, [type |-> "pageBreak"])

stream(s, result) ==
  LET content == contentOf(result)
  IN addHistoryItem(s, withProp(
       [html |-> fromAsciiToHtml(content.text), type |-> "text"],
       "source", content, "name"))

responseTypes ==
  {"display_data", "error", "execute_input", "execute_result", "execute_reply",
   "status", "stream"}

responseTypeHandlers(responseType, s, result) ==
  CASE responseType = "display_data" -> display_data(s, result)
    [] responseType = "error" -> error(s, result)
    [] responseType = "execute_input" -> execute_input(s, result)
    [] responseType = "execute_result" -> execute_result(s, result)
    [] responseType = "execute_reply" -> execute_reply(s, result)
    [] responseType = "status" -> status(s, result)
    [] responseType = "stream" -> stream(s, result)

\* ------------------------------------------------------ command handlers
\* promptActionService.execute: owned by the command-line sub-component; the
\* transcript fields pass through it
executing(s) == s

executed(s, action) ==
  IF Has(s, "responses")
  THEN set(s, "responses", set(s.responses, action.payload, EmptyObj))
  ELSE undefined   \* the function ends without a return

\* _.get(action, 'payload.result.parent_header.msg_id') is truthy
hasMsgId(result) ==
  /\ Has(result, "parent_header")
  /\ Has(result.parent_header, "msg_id")
  /\ Truthy(result.parent_header.msg_id)

\* routing without the check against responses
jupyterResponseDetectedUnfiltered(s, action) ==
  LET result == action.payload.result
  IN IF hasMsgId(result)
     THEN IF Has(result, "msg_type") /\ result.msg_type \in responseTypes
          THEN responseTypeHandlers(result.msg_type, s, result)
          ELSE s
     ELSE s

jupyterResponseDetected(s, action) ==
  LET result == action.payload.result
  IN IF /\ hasMsgId(result)
        /\ Has(s, "responses")
        /\ Has(s.responses, result.parent_header.msg_id)
     THEN IF Has(result, "msg_type") /\ result.msg_type \in responseTypes
          THEN responseTypeHandlers(result.msg_type, s, result)
          ELSE s
     ELSE s

changePreference(s, action) ==
  IF action.key = "fontSize" THEN set(s, "fontSize", toNumber(action.value)) ELSE s

workingDirectoryChanged(s, action) ==
  IF Has(action, "cwd") /\ Truthy(action.cwd) THEN set(s, "cwd", action.cwd) ELSE s

interrupting(s) == s

interrupted(s, action) ==
  IF Has(action, "error") /\ action.error
  THEN addHistoryItem(s, [html |-> "Unable to interrupt terminal",
                          source |-> "stderr", type |-> "text"])
  ELSE s

restarting(s) ==
  addHistoryItem(s, [html |-> "restarting terminal...", source |-> "stdout",
                     type |-> "text"])

\* restarted that keeps a failure to itself
restartedSilently(s, action) ==
  IF Has(action, "error") /\ action.error
  THEN s
  ELSE addHistoryItem(s, [html |-> "done", source |-> "stdout", type |-> "text"])

restarted(s, action) ==
  IF Has(action, "error") /\ action.error
  THEN addHistoryItem(s, [html |-> "Unable to restart terminal",
                          source |-> "stderr", type |-> "text"])
  ELSE addHistoryItem(s, [html |-> "done", source |-> "stdout", type |-> "text"])

\* clear that also forgets the active requests
clearAll(s) == set(set(s, "items", <<>>), "actives", EmptyObj)

\* clear that also forgets the registered requests
clearForgetsRequests(s) ==
  IF Has(s, "responses")
  THEN set(set(s, "items", <<>>), "responses", EmptyObj)
  ELSE set(s, "items", <<>>)

clear(s) == set(s, "items", <<>>)

isAutocomplete(item) == item # undefined /\ item.type = "autocomplete"

\* autocomplete as a pure append
autocompleteAppends(s, action) ==
  addHistoryItem(s, withProp([type |-> "autocomplete"], "matches", action, "payload"))

autocomplete(s, action) ==
  LET s1 == IF isAutocomplete(last(s.items)) THEN removeLastHistoryItem(s) ELSE s
  IN addHistoryItem(s1, withProp([type |-> "autocomplete"], "matches", action, "payload"))

\* clearAutocomplete that retracts whatever item is last
clearAutocompleteAnyItem(s) ==
  IF last(s.items) # undefined THEN removeLastHistoryItem(s) ELSE s

clearAutocomplete(s) ==
  IF isAutocomplete(last(s.items)) THEN removeLastHistoryItem(s) ELSE s

promptCommand(s, action) ==
  IF ~Has(action, "payload") THEN TypeError   \* command.clearAutocomplete of undefined
  ELSE LET command == action.payload
       IN IF Has(command, "clearAutocomplete") /\ command.clearAutocomplete
          THEN clearAutocomplete(s)
          ELSE s

\* the reducer map: the handler registered for the action's type
reducer(s, action) ==
  CASE action.type = "AUTOCOMPLETE" -> autocomplete(s, action)
    [] action.type = "CLEAR_AUTOCOMPLETE" -> clearAutocomplete(s)
    [] action.type = "CLEAR" -> clear(s)
    [] action.type = "INTERRUPTING" -> interrupting(s)
    [] action.type = "INTERRUPTED" -> interrupted(s, action)
    [] action.type = "EXECUTING" -> executing(s)
    [] action.type = "EXECUTED" -> executed(s, action)
    [] action.type = "RESTARTING" -> restarting(s)
    [] action.type = "RESTARTED" -> restarted(s, action)
    [] action.type = "JUPYTER_RESPONSE" -> jupyterResponseDetected(s, action)
    [] action.type = "CHANGE_PREFERENCE" -> changePreference(s, action)
    [] action.type = "WORKING_DIRECTORY_CHANGED" -> workingDirectoryChanged(s, action)
    [] action.type = "PROMPT_VIEWER_COMMAND" -> promptCommand(s, action)

\* ------------------------------------------------------ inputs
RequestIds == {"r1", "r2"}

\* content.data of display_data and execute_result messages
Image == [k \in {"image/png"} |-> "iVBOR"]

TextPlain(text) == [k \in {"text/plain"} |-> text]

\* parent_header of a message; a message may lack it
Headers ==
  {[parent_header |-> [msg_id |-> r]] : r \in RequestIds} \cup {EmptyObj}

\* the action that carries one protocol message
JupyterResponse(header, msgType, content) ==
  [type |-> "JUPYTER_RESPONSE",
   payload |-> [result |->
     [k \in DOMAIN header \cup {"msg_type", "content"} |->
        IF k = "msg_type" THEN msgType
        ELSE IF k = "content" THEN content
        ELSE header[k]]]]

DisplayDataEvents ==
  {JupyterResponse(h, "display_data", c) :
     h \in Headers, c \in {EmptyObj, [data |-> Image]}}

ErrorEvents ==
  {JupyterResponse(h, "error", c) :
     h \in Headers,
     c \in {[ename |-> "ValueError", evalue |-> "bad"],
            [ename |-> "ValueError", evalue |-> "bad", traceback |-> <<"line1">>]}}

ExecuteInputEvents ==
  {JupyterResponse(h, "execute_input", c) :
     h \in Headers, c \in {EmptyObj, [code |-> "a\nb", name |-> "stdin"]}}

ExecuteResultEvents ==
  {JupyterResponse(h, "execute_result", c) :
     h \in Headers,
     c \in {EmptyObj, [data |-> TextPlain("42")], [data |-> TextPlain("")]}}

ExecuteReplyEvents ==
  {JupyterResponse(h, "execute_reply", [status |-> "ok"]) : h \in Headers}

StatusEvents ==
  {JupyterResponse(h, "status", c) :
     h \in Headers,
     c \in {[execution_state |-> "busy"], [execution_state |-> "idle"], EmptyObj}}

StreamEvents ==
  {JupyterResponse(h, "stream", [name |-> "stdout", text |-> "hi"]) : h \in Headers}

\* a message type without a handler
CommOpenEvents ==
  {JupyterResponse(h, "comm_open", EmptyObj) : h \in Headers}

AutocompleteEvents ==
  {[type |-> "AUTOCOMPLETE", payload |-> m] : m \in {<<"print">>, <<"pop", "push">>}}

ClearAutocompleteEvents == {[type |-> "CLEAR_AUTOCOMPLETE"]}

ClearEvents == {[type |-> "CLEAR"]}

InterruptingEvents == {[type |-> "INTERRUPTING"]}

InterruptedEvents ==
  {[type |-> "INTERRUPTED"],
   [type |-> "INTERRUPTED", error |-> TRUE, payload |-> "timeout"]}

ExecutingEvents == {[type |-> "EXECUTING"]}

ExecutedEvents == {[type |-> "EXECUTED", payload |-> r] : r \in RequestIds}

RestartingEvents == {[type |-> "RESTARTING"]}

RestartedEvents ==
  {[type |-> "RESTARTED"],
   [type |-> "RESTARTED", error |-> TRUE, payload |-> "timeout"]}

ChangePreferenceEvents ==
  {[type |-> "CHANGE_PREFERENCE", key |-> "fontSize", value |-> "14"],
   [type |-> "CHANGE_PREFERENCE", key |-> "theme", value |-> "dark"]}

WorkingDirectoryChangedEvents ==
  {[type |-> "WORKING_DIRECTORY_CHANGED"],
   [type |-> "WORKING_DIRECTORY_CHANGED", cwd |-> "/home"]}

PromptViewerCommandEvents ==
  {[type |-> "PROMPT_VIEWER_COMMAND"],
   [type |-> "PROMPT_VIEWER_COMMAND", payload |-> [clearAutocomplete |-> TRUE]],
   [type |-> "PROMPT_VIEWER_COMMAND", payload |-> [name |-> "insertKey"]]}

\* An execute_input message without code reaches the markup rendering only when
\* no prompt label is set; that call is outside the rendering's domain, so such
\* a message is dispatched only to a state with a prompt label.
Admissible(s, action) ==
  (/\ action.type = "JUPYTER_RESPONSE"
   /\ action.payload.result.msg_type = "execute_input"
   /\ ~Has(action.payload.result.content, "code"))
    => (Has(s, "promptLabel") /\ Truthy(s.promptLabel))

\* ------------------------------------------------------ the store
\* The state a viewer is created with: an empty transcript, no active request
\* and the default font size; either a viewer that does not correlate messages
\* (no responses map), or one that does, with the prompt decoration of its kernel.
InitialStates ==
  LET base == [items |-> <<>>, actives |-> EmptyObj, fontSize |-> 12]
  IN {base,
      set(set(set(base, "responses", EmptyObj), "promptLabel", ">>> "),
          "continueLabel", "... ")}

Init == state \in InitialStates

\* One dispatch.  A handler that throws leaves the store as it was; any other
\* return value, undefined included, becomes the store's value.
dispatch(s, action) ==
  LET next == reducer(s, action)
  IN IF next = TypeError THEN s ELSE next

\* the dispatch threw
throws(s, action) == reducer(s, action) = TypeError

\* Once the store's value is undefined no handler can rebuild a transcript from
\* it; the model follows a session up to that point, on transcripts of at most
\* MaxItems items.  next is the value the dispatch of action leaves in the store.
Accepts(s, action, next) ==
  /\ s # undefined
  /\ Admissible(s, action)
  /\ next # undefined => Len(next.items) <= MaxItems

DisplayData ==
  \E action \in DisplayDataEvents :
    LET next == dispatch(state, action)
    IN Accepts(state, action, next) /\ state' = next

Error ==
  \E action \in ErrorEvents :
    LET next == dispatch(state, action)
    IN Accepts(state, action, next) /\ state' = next

ExecuteInput ==
  \E action \in ExecuteInputEvents :
    LET next == dispatch(state, action)
    IN Accepts(state, action, next) /\ state' = next

ExecuteResult ==
  \E action \in ExecuteResultEvents :
    LET next == dispatch(state, action)
    IN Accepts(state, action, next) /\ state' = next

ExecuteReply ==
  \E action \in ExecuteReplyEvents :
    LET next == dispatch(state, action)
    IN Accepts(state, action, next) /\ state' = next

Status ==
  \E action \in StatusEvents :
    LET next == dispatch(state, action)
    IN Accepts(state, action, next) /\ state' = next

Stream ==
  \E action \in StreamEvents :
    LET next == dispatch(state, action)
    IN Accepts(state, action, next) /\ state' = next

CommOpen ==
  \E action \in CommOpenEvents :
    LET next == dispatch(state, action)
    IN Accepts(state, action, next) /\ state' = next

Autocomplete ==
  \E action \in AutocompleteEvents :
    LET next == dispatch(state, action)
    IN Accepts(state, action, next) /\ state' = next

ClearAutocomplete ==
  \E action \in ClearAutocompleteEvents :
    LET next == dispatch(state, action)
    IN Accepts(state, action, next) /\ state' = next

Clear ==
  \E action \in ClearEvents :
    LET next == dispatch(state, action)
    IN Accepts(state, action, next) /\ state' = next

Interrupting ==
  \E action \in InterruptingEvents :
    LET next == dispatch(state, action)
    IN Accepts(state, action, next) /\ state' = next

Interrupted ==
  \E action \in InterruptedEvents :
    LET next == dispatch(state, action)
    IN Accepts(state, action, next) /\ state' = next

Executing ==
  \E action \in ExecutingEvents :
    LET next == dispatch(state, action)
    IN Accepts(state, action, next) /\ state' = next

Executed ==
  \E action \in ExecutedEvents :
    LET next == dispatch(state, action)
    IN Accepts(state, action, next) /\ state' = next

Restarting ==
  \E action \in RestartingEvents :
    LET next == dispatch(state, action)
    IN Accepts(state, action, next) /\ state' = next

Restarted ==
  \E action \in RestartedEvents :
    LET next == dispatch(state, action)
    IN Accepts(state, action, next) /\ state' = next

ChangePreference ==
  \E action \in ChangePreferenceEvents :
    LET next == dispatch(state, action)
    IN Accepts(state, action, next) /\ state' = next

WorkingDirectoryChanged ==
  \E action \in WorkingDirectoryChangedEvents :
    LET next == dispatch(state, action)
    IN Accepts(state, action, next) /\ state' = next

PromptViewerCommand ==
  \E action \in PromptViewerCommandEvents :
    LET next == dispatch(state, action)
    IN Accepts(state, action, next) /\ state' = next

Next ==
  \/ DisplayData
  \/ Error
  \/ ExecuteInput
  \/ ExecuteResult
  \/ ExecuteReply
  \/ Status
  \/ Stream
  \/ CommOpen
  \/ Autocomplete
  \/ ClearAutocomplete
  \/ Clear
  \/ Interrupting
  \/ Interrupted
  \/ Executing
  \/ Executed
  \/ Restarting
  \/ Restarted
  \/ ChangePreference
  \/ WorkingDirectoryChanged
  \/ PromptViewerCommand

Spec == Init /\ [][Next]_vars

\* ------------------------------------------------------ a correlating session
\* A viewer that correlates messages (it has a responses map, empty at first),
\* under each prompt decoration, receiving the executed command and the status,
\* execute_input and execute_result messages of its requests.
MaxSessionItems == 3

\* execute_input messages of one, two and three lines of code
SessionInputEvents ==
  {JupyterResponse(h, "execute_input", c) :
     h \in Headers,
     c \in {[code |-> "x"], [code |-> "a\nb", name |-> "stdin"],
            [code |-> "a\nb\nc", name |-> "stdin"]}}

SessionStates ==
  LET base == [items |-> <<>>, actives |-> EmptyObj, responses |-> EmptyObj]
  IN {base,
      set(base, "promptLabel", ">>> "),
      set(base, "continueLabel", "... "),
      set(set(base, "promptLabel", ">>> "), "continueLabel", "... ")}

SessionInit == state \in SessionStates

SessionAccepts(next) == Len(next.items) <= MaxSessionItems

SessionExecuted ==
  \E action \in ExecutedEvents :
    LET next == dispatch(state, action)
    IN SessionAccepts(next) /\ state' = next

SessionStatus ==
  \E action \in StatusEvents :
    LET next == dispatch(state, action)
    IN SessionAccepts(next) /\ state' = next

SessionExecuteInput ==
  \E action \in SessionInputEvents :
    LET next == dispatch(state, action)
    IN SessionAccepts(next) /\ state' = next

SessionExecuteResult ==
  \E action \in ExecuteResultEvents :
    LET next == dispatch(state, action)
    IN SessionAccepts(next) /\ state' = next

SessionNext ==
  \/ SessionExecuted
  \/ SessionStatus
  \/ SessionExecuteInput
  \/ SessionExecuteResult

SessionSpec == SessionInit /\ [][SessionNext]_vars

\* ------------------------------------------------------ the overlay alone
\* A transcript that shows some history and no autocomplete item, on which only
\* the autocomplete and clearAutocomplete commands are dispatched.
MaxHistory == 3

HistoryItems ==
  {[type |-> "pageBreak"],
   [html |-> "done", source |-> "stdout", type |-> "text"],
   [data |-> Image, type |-> "annotation"]}

Histories == UNION {[1..n -> HistoryItems] : n \in 0..MaxHistory}

OverlayInit ==
  \E items \in Histories : state = [items |-> items, actives |-> EmptyObj]

OverlayAccepts(next) == Len(next.items) <= MaxHistory + 1

OverlayAutocomplete ==
  \E action \in AutocompleteEvents :
    LET next == dispatch(state, action)
    IN OverlayAccepts(next) /\ state' = next

OverlayClearAutocomplete ==
  \E action \in ClearAutocompleteEvents :
    LET next == dispatch(state, action)
    IN OverlayAccepts(next) /\ state' = next

OverlayNext ==
  \/ OverlayAutocomplete
  \/ OverlayClearAutocomplete

OverlaySpec == OverlayInit /\ [][OverlayNext]_vars

\* ------------------------------------------------------ vocabulary of the properties
\* every event of the model
AllEvents ==
  DisplayDataEvents \cup ErrorEvents \cup ExecuteInputEvents \cup ExecuteResultEvents
    \cup ExecuteReplyEvents \cup StatusEvents \cup StreamEvents \cup CommOpenEvents
    \cup AutocompleteEvents \cup ClearAutocompleteEvents \cup ClearEvents
    \cup InterruptingEvents \cup InterruptedEvents \cup ExecutingEvents
    \cup ExecutedEvents \cup RestartingEvents \cup RestartedEvents
    \cup ChangePreferenceEvents \cup WorkingDirectoryChangedEvents
    \cup PromptViewerCommandEvents

AllJupyterEvents ==
  DisplayDataEvents \cup ErrorEvents \cup ExecuteInputEvents \cup ExecuteResultEvents
    \cup ExecuteReplyEvents \cup StatusEvents \cup StreamEvents \cup CommOpenEvents

IsTranscript(s) == s # undefined

MsgType(action) == action.payload.result.msg_type

Content(action) == action.payload.result.content

\* the message names request r in its parent_header
Names(action, r) ==
  /\ Has(action.payload.result, "parent_header")
  /\ action.payload.result.parent_header.msg_id = r

\* the message is routed: its msg_id is a key of responses and its type is known
Routed(s, action) ==
  /\ Has(s, "responses")
  /\ \E r \in DOMAIN s.responses : Names(action, r)
  /\ MsgType(action) \in
       {"display_data", "error", "execute_input", "execute_result",
        "execute_reply", "status", "stream"}

ActiveKeys(s) == IF IsTranscript(s) THEN DOMAIN s.actives ELSE {}

\* the items a store value shows: none once the value is no transcript
ItemsOf(s) == IF IsTranscript(s) THEN s.items ELSE <<>>

AutocompleteAt(items) == {i \in 1..Len(items) : items[i].type = "autocomplete"}

\* the status message reports execution_state "busy"
SaysBusy(action) ==
  Has(Content(action), "execution_state") /\ Content(action).execution_state = "busy"

IsPrefix(p, q) == Len(p) <= Len(q) /\ SubSeq(q, 1, Len(p)) = p

\* the overlay operations: autocomplete, clearAutocomplete, and promptCommand
\* with the clearAutocomplete flag
IsOverlayOp(action) ==
  \/ action.type \in {"AUTOCOMPLETE", "CLEAR_AUTOCOMPLETE"}
  \/ /\ action.type = "PROMPT_VIEWER_COMMAND"
     /\ Has(action, "payload")
     /\ Has(action.payload, "clearAutocomplete")
     /\ action.payload.clearAutocomplete

\* ------------------------------------------------------ properties
\* C1: in every reachable state items holds at most one autocomplete item, and
\* if one is present it is the last element.
C1_SingleTrailingAutocomplete ==
  IsTranscript(state) =>
    /\ Cardinality(AutocompleteAt(state.items)) <= 1
    /\ AutocompleteAt(state.items) \subseteq {Len(state.items)}

\* C2: a JUPYTER_RESPONSE whose msg_id is not a key of responses, or whose
\* msg_type is not one of the seven known types, leaves the whole state unchanged.
C2_UnroutedLeavesState ==
  IsTranscript(state) =>
    \A action \in AllJupyterEvents :
      (Admissible(state, action) /\ ~Routed(state, action)) =>
        reducer(state, action) = state

\* a transcript that only knows r1, with history a routed message would extend
C2_Witness ==
  /\ IsTranscript(state)
  /\ Has(state, "responses")
  /\ DOMAIN state.responses = {"r1"}
  /\ Len(state.items) = 1
  /\ \E action \in StatusEvents : Names(action, "r2") /\ dispatch(state, action) = state

\* C3: a routed status message for R leaves R a key of actives exactly when its
\* execution_state is "busy", and no other event adds or removes a key of
\* actives; with actives = {} at the start, R is a key of actives iff the most
\* recent routed status message for R said "busy".
C3_ActivesFollowStatus ==
  IsTranscript(state) =>
    \A action \in AllEvents :
      Admissible(state, action) =>
        LET after == ActiveKeys(dispatch(state, action))
        IN IF /\ action.type = "JUPYTER_RESPONSE"
              /\ MsgType(action) = "status"
              /\ Routed(state, action)
           THEN \A r \in RequestIds :
                  IF Names(action, r)
                  THEN r \in after <=> SaysBusy(action)
                  ELSE r \in after <=> r \in ActiveKeys(state)
           ELSE after = ActiveKeys(state)

\* r1 is busy, r2 was busy and has gone idle
C3_Witness ==
  /\ IsTranscript(state)
  /\ Has(state, "responses")
  /\ DOMAIN state.responses = {"r1", "r2"}
  /\ ActiveKeys(state) = {"r1"}
  /\ Len(state.items) = 2
  /\ \A i \in 1..2 : state.items[i].type = "pageBreak"

\* C4: for R in responses with an active entry without errors, one error
\* message for R with ename n, evalue v and non-empty traceback t yields
\* actives[R].errors = [[n, v, t]] and appends one pythonError item named n.
C4_ErrorRecorded ==
  IsTranscript(state) =>
    \A action \in ErrorEvents, r \in RequestIds :
      (/\ Routed(state, action)
       /\ Names(action, r)
       /\ r \in ActiveKeys(state)
       /\ ~Has(state.actives[r], "errors")
       /\ Has(Content(action), "traceback")
       /\ Len(Content(action).traceback) > 0)
        => LET next == dispatch(state, action)
               n == Content(action).ename
               v == Content(action).evalue
               t == Content(action).traceback
           IN /\ Len(next.items) = Len(state.items) + 1
              /\ SubSeq(next.items, 1, Len(state.items)) = state.items
              /\ last(next.items).type = "pythonError"
              /\ last(next.items).name = n
              /\ r \in ActiveKeys(next)
              /\ Has(next.actives[r], "errors")
              /\ next.actives[r].errors = << <<n, v, t>> >>

\* C5: an event that is neither clear nor an overlay operation never shortens
\* items: the items before it are a prefix of the items after it.
C5_ItemsOnlyGrow ==
  IsTranscript(state) =>
    \A action \in AllEvents :
      (Admissible(state, action) /\ action.type # "CLEAR" /\ ~IsOverlayOp(action))
        => IsPrefix(state.items, ItemsOf(dispatch(state, action)))

C7_ClearTouchesOnlyItems ==
  IsTranscript(state) =>
    \A action \in ClearEvents :
      LET next == dispatch(state, action)
      IN /\ ~throws(state, action)
         /\ IsTranscript(next)
         /\ next.items = <<>>
         /\ DOMAIN next = DOMAIN state
         /\ \A k \in DOMAIN state \ {"items"} : next[k] = state[k]

\* a cleared transcript: a busy request left a pageBreak that only clear removes
C7_Witness ==
  /\ IsTranscript(state)
  /\ state.items = <<>>
  /\ ActiveKeys(state) = {"r1"}
  /\ state.fontSize = 14
  /\ Has(state, "cwd")
  /\ state.cwd = "/home"
  /\ DOMAIN state.responses = {"r1", "r2"}

\* C8: a routed status message for R appends exactly one pageBreak item and
\* changes actives only at R: "busy" binds R to an empty entry, any other value
\* removes R, which leaves actives unchanged when R was not a key.
C8_StatusBreaksPage ==
  IsTranscript(state) =>
    \A action \in StatusEvents, r \in RequestIds :
      (Routed(state, action) /\ Names(action, r))
        => LET next == dispatch(state, action)
               busy == SaysBusy(action)
           IN /\ ~throws(state, action)
              /\ IsTranscript(next)
              /\ next.items = Append(state.items, [type |-> "pageBreak"])
              /\ DOMAIN next.actives \ {r} = DOMAIN state.actives \ {r}
              /\ \A q \in DOMAIN state.actives \ {r} : next.actives[q] = state.actives[q]
              /\ busy => (r \in DOMAIN next.actives /\ next.actives[r] = EmptyObj)
              /\ ~busy => r \notin DOMAIN next.actives
              /\ (~busy /\ r \notin DOMAIN state.actives) => next.actives = state.actives

\* r2 is busy and r1, registered, is not: an idle status for r1 changes actives
\* nowhere and a busy one only at r1
C8_Witness ==
  /\ IsTranscript(state)
  /\ Has(state, "responses")
  /\ DOMAIN state.responses = {"r1", "r2"}
  /\ ActiveKeys(state) = {"r2"}
  /\ Len(state.items) > 0
  /\ last(state.items).type = "pageBreak"

\* C9: executed with payload R adds R to an existing responses map as an empty
\* entry and changes nothing else; without a responses map it returns the state
\* it was given.
C9_ExecutedRegisters ==
  IsTranscript(state) =>
    \A action \in ExecutedEvents :
      LET next == dispatch(state, action)
      IN IF Has(state, "responses")
         THEN next = set(state, "responses",
                         set(state.responses, action.payload, EmptyObj))
         ELSE next = state

\* C10: every event other than an error message without (or with an empty)
\* traceback is processed to completion and yields a transcript state.
C10_NoEventFails ==
  IsTranscript(state) =>
    \A action \in AllEvents :
      (/\ Admissible(state, action)
       /\ ~(/\ action.type = "JUPYTER_RESPONSE"
            /\ MsgType(action) = "error"
            /\ (\/ ~Has(Content(action), "traceback")
                \/ Len(Content(action).traceback) = 0)))
        => /\ ~throws(state, action)
           /\ IsTranscript(dispatch(state, action))

\* the status message for request r reporting execution_state e
StatusOf(r, e) ==
  JupyterResponse([parent_header |-> [msg_id |-> r]], "status", [execution_state |-> e])

\* C11: from items = [], actives = {} and responses = {}, executed(R), status
\* busy for R, an execute_result for R with a non-empty text/plain value and
\* status idle for R end with responses = {R: {}}, actives = {} and items =
\* [pageBreak, stdout text, pageBreak]; between the busy and the idle message
\* actives = {R: {}}.
C11_RoundTrip ==
  (/\ IsTranscript(state)
   /\ state.items = <<>>
   /\ state.actives = EmptyObj
   /\ Has(state, "responses")
   /\ state.responses = EmptyObj)
    => \A r \in RequestIds, result \in ExecuteResultEvents :
         (/\ Names(result, r)
          /\ Has(Content(result), "data")
          /\ Has(Content(result).data, "text/plain")
          /\ Content(result).data["text/plain"] # "")
           => LET s1 == dispatch(state, [type |-> "EXECUTED", payload |-> r])
                  s2 == dispatch(s1, StatusOf(r, "busy"))
                  s3 == dispatch(s2, result)
                  s4 == dispatch(s3, StatusOf(r, "idle"))
                  only == [k \in {r} |-> EmptyObj]
              IN /\ s2.actives = only
                 /\ s3.actives = only
                 /\ s4.responses = only
                 /\ s4.actives = EmptyObj
                 /\ Len(s4.items) = 3
                 /\ s4.items[1] = [type |-> "pageBreak"]
                 /\ s4.items[2].type = "text"
                 /\ s4.items[2].source = "stdout"
                 /\ s4.items[3] = [type |-> "pageBreak"]
                 /\ \A k \in DOMAIN state \ {"items", "actives", "responses"} :
                      Has(s4, k) /\ s4[k] = state[k]

\* the end of the round trip for r1
C11_Witness ==
  /\ state.responses = [k \in {"r1"} |-> EmptyObj]
  /\ state.actives = EmptyObj
  /\ state.items = <<[type |-> "pageBreak"],
                     [html |-> fromAsciiToHtml("42"), source |-> "stdout", type |-> "text"],
                     [type |-> "pageBreak"]>>

\* C12: interrupted or restarted with an error flag appends exactly one stderr
\* text item ("Unable to interrupt terminal", "Unable to restart terminal");
\* interrupted without error leaves the state unchanged and restarted without
\* error appends exactly one stdout text item "done".
C12_FailuresSurface ==
  IsTranscript(state) =>
    \A action \in InterruptedEvents \cup RestartedEvents :
      LET next == dispatch(state, action)
          failed == Has(action, "error") /\ action.error
          appended(html, source) ==
            next = set(state, "items",
                       state.items \o <<[html |-> html, source |-> source, type |-> "text"]>>)
      IN CASE action.type = "INTERRUPTED" /\ failed ->
                appended("Unable to interrupt terminal", "stderr")
           [] action.type = "INTERRUPTED" /\ ~failed -> next = state
           [] action.type = "RESTARTED" /\ failed ->
                appended("Unable to restart terminal", "stderr")
           [] action.type = "RESTARTED" /\ ~failed -> appended("done", "stdout")

\* a failed restart was reported after an earlier item
C12_Witness ==
  /\ IsTranscript(state)
  /\ Len(state.items) = 2
  /\ state.items[2] = [html |-> "Unable to restart terminal", source |-> "stderr",
                       type |-> "text"]

\* C13: from a state without autocomplete item, after each command of a sequence
\* of autocomplete and clearAutocomplete commands there is at most one
\* autocomplete item, and it is the last element.
C13_OverlayStaysLast ==
  /\ \A i \in 1..Len(state.items) :
       isAutocomplete(state.items[i]) => i = Len(state.items)
  /\ \A i, j \in AutocompleteAt(state.items) : i = j

\* the overlay is shown after two items of history
C13_Witness ==
  /\ Len(state.items) = 3
  /\ ~isAutocomplete(state.items[1])
  /\ ~isAutocomplete(state.items[2])
  /\ state.items[3] = [type |-> "autocomplete", matches |-> <<"pop", "push">>]

\* C14: a routed execute_input message appends exactly one text item tagged
\* with content.name; with promptLabel set its text is promptLabel + l0 followed
\* by P + li for the later lines of the code (P is continueLabel if set, else
\* promptLabel), and without promptLabel it is the code unchanged, continueLabel
\* or not.
C14_PromptDecoration ==
  IsTranscript(state) =>
    \A action \in SessionInputEvents :
      Routed(state, action) =>
        LET next == dispatch(state, action)
            code == Content(action).code
            l == split(code)
            labelled == Has(state, "promptLabel") /\ state.promptLabel # ""
            continued == Has(state, "continueLabel") /\ state.continueLabel # ""
            P == IF continued THEN state.continueLabel ELSE state.promptLabel
            text == IF labelled
                    THEN join([i \in 1..Len(l) |->
                                 IF i = 1 THEN state.promptLabel \o l[i] ELSE P \o l[i]])
                    ELSE code
            item == last(next.items)
        IN /\ next = set(state, "items", state.items \o <<item>>)
           /\ item.type = "text"
           /\ item.html = fromAsciiToHtml(text)
           /\ IF Has(Content(action), "name")
              THEN item.source = Content(action).name
              ELSE ~Has(item, "source")
           /\ (labelled /\ continued /\ code = "a\nb") =>
                item.html = fromAsciiToHtml(">>> a\n... b")
           /\ (labelled /\ ~continued /\ code = "a\nb\nc") =>
                item.html = fromAsciiToHtml(">>> a\n>>> b\n>>> c")

\* without promptLabel the code was rendered as it came, continueLabel being set
C14_Witness ==
  /\ ~Has(state, "promptLabel")
  /\ Has(state, "continueLabel")
  /\ Len(state.items) = 1
  /\ state.items[1] = [html |-> fromAsciiToHtml("a\nb"), source |-> "stdin",
                       type |-> "text"]

\* the (name, value, traceback) triple of an error message
Triple(action) ==
  <<Content(action).ename, Content(action).evalue, Content(action).traceback>>

\* C15: while R stays active, k routed error messages for R leave exactly their
\* k (name, value, traceback) triples in actives[R].errors, in arrival order;
\* each error message keeps R active, leaves the other entries of actives as
\* they were and appends one pythonError item, whether or not R is active.
C15_ErrorsAccumulate ==
  IsTranscript(state) =>
    \A e1, e2 \in ErrorEvents, r \in RequestIds :
      (/\ Routed(state, e1)
       /\ Names(e1, r)
       /\ Names(e2, r)
       /\ Has(Content(e1), "traceback")
       /\ Has(Content(e2), "traceback"))
        => LET s1 == dispatch(state, e1)
               s2 == dispatch(s1, e2)
               others(s) == [k \in DOMAIN s.actives \ {r} |-> s.actives[k]]
           IN /\ Len(s2.items) = Len(state.items) + 2
              /\ SubSeq(s2.items, 1, Len(state.items)) = state.items
              /\ s1.items = SubSeq(s2.items, 1, Len(state.items) + 1)
              /\ \A i \in Len(state.items) + 1 .. Len(state.items) + 2 :
                   s2.items[i].type = "pythonError"
              /\ ActiveKeys(s1) = ActiveKeys(state)
              /\ ActiveKeys(s2) = ActiveKeys(state)
              /\ others(s1) = others(state)
              /\ others(s2) = others(state)
              /\ (r \in ActiveKeys(state) /\ ~Has(state.actives[r], "errors")) =>
                   /\ Has(s1.actives[r], "errors")
                   /\ s1.actives[r].errors = <<Triple(e1)>>
                   /\ Has(s2.actives[r], "errors")
                   /\ s2.actives[r].errors = <<Triple(e1), Triple(e2)>>

\* C16: after autocomplete(m) the last item is an autocomplete item carrying m;
\* if the last item before was an autocomplete item the length is unchanged and
\* the earlier items are untouched, otherwise the length grows by one; hence
\* autocomplete(m1) followed by autocomplete(m2) gives the items of
\* autocomplete(m2) alone.
C16_ReplaceInPlace ==
  IsTranscript(state) =>
    \A a1, a2 \in AutocompleteEvents :
      LET next == dispatch(state, a2)
          had == isAutocomplete(last(state.items))
          kept == IF had THEN pop(state.items) ELSE state.items
      IN /\ last(next.items) = [type |-> "autocomplete", matches |-> a2.payload]
         /\ Len(next.items) = IF had THEN Len(state.items) ELSE Len(state.items) + 1
         /\ SubSeq(next.items, 1, Len(next.items) - 1) = kept
         /\ dispatch(dispatch(state, a1), a2).items = next.items

\* an overlay carrying one match is shown after an item of history
C16_Witness ==
  /\ IsTranscript(state)
  /\ Len(state.items) = 2
  /\ ~isAutocomplete(state.items[1])
  /\ state.items[2] = [type |-> "autocomplete", matches |-> <<"print">>]

\* C17: a routed execute_result message without content.data leaves the state
\* unchanged; with a text/plain representation in content.data, whatever its
\* value (the empty string included), it appends exactly one stdout text item;
\* with content.data lacking text/plain it appends exactly one annotation item
\* carrying the raw data.
C17_ResultRendering ==
  IsTranscript(state) =>
    \A action \in ExecuteResultEvents :
      Routed(state, action) =>
        LET next == dispatch(state, action)
            content == Content(action)
            item == last(next.items)
        IN IF ~Has(content, "data")
           THEN next = state
           ELSE /\ next = set(state, "items", state.items \o <<item>>)
                /\ IF Has(content.data, "text/plain")
                   THEN /\ item.type = "text"
                        /\ item.source = "stdout"
                   ELSE item = [data |-> content.data, type |-> "annotation"]

\* the items that are not the autocomplete overlay, in order
NonOverlay(items) == SelectSeq(items, LAMBDA item : item.type # "autocomplete")

\* C18: an event other than clear never removes an item that is not an
\* autocomplete item, so the non-autocomplete items only grow by appends; the
\* only item autocomplete, clearAutocomplete or promptCommand remove is an
\* autocomplete item that is last.
C18_HistoryIsKept ==
  IsTranscript(state) =>
    \A action \in AllEvents :
      (Admissible(state, action) /\ action.type # "CLEAR") =>
        LET next == dispatch(state, action)
        IN /\ IsPrefix(NonOverlay(state.items), NonOverlay(ItemsOf(next)))
           /\ action.type \in {"AUTOCOMPLETE", "CLEAR_AUTOCOMPLETE",
                               "PROMPT_VIEWER_COMMAND"} =>
                \/ IsPrefix(state.items, next.items)
                \/ /\ isAutocomplete(last(state.items))
                   /\ IsPrefix(pop(state.items), next.items)

\* C19: starting from actives = {}, every key of actives is a key of responses.
C19_ActivesAreRegistered ==
  IsTranscript(state) =>
    \A r \in DOMAIN state.actives :
      Has(state, "responses") /\ Has(state.responses, r)

\* r2 is the only registered request and it is busy
C19_Witness ==
  /\ IsTranscript(state)
  /\ Has(state, "responses")
  /\ DOMAIN state.responses = {"r2"}
  /\ DOMAIN state.actives = {"r2"}
  /\ state.items = <<[type |-> "pageBreak"]>>

\* a step keeps every key of responses with its entry, changes responses only
\* as the executed command does, and creates no responses map otherwise
ResponsesKept ==
  IsTranscript(state) =>
    IF Has(state, "responses")
    THEN /\ IsTranscript(state')
         /\ Has(state', "responses")
         /\ \A r \in DOMAIN state.responses :
              Has(state'.responses, r) /\ state'.responses[r] = state.responses[r]
         /\ state'.responses # state.responses =>
              \E action \in ExecutedEvents :
                /\ state' = dispatch(state, action)
                /\ DOMAIN state'.responses = DOMAIN state.responses \cup {action.payload}
    ELSE IsTranscript(state') => ~Has(state', "responses")

\* a protocol message of a known type that names a registered request gets
\* exactly the result of the handler of its type
RegisteredIsRouted ==
  (IsTranscript(state) /\ Has(state, "responses")) =>
    \A m \in AllJupyterEvents :
      (/\ Admissible(state, m)
       /\ MsgType(m) \in responseTypes
       /\ \E r \in DOMAIN state.responses : Names(m, r))
        => reducer(state, m) =
             responseTypeHandlers(MsgType(m), state, m.payload.result)

\* C20: responses only grows: no event removes a key from responses and only
\* executed changes responses; hence a protocol message of a known type for a
\* registered request is handed to its handler in every later state, after
\* clear and after the request went idle as well.
C20_ResponsesOnlyGrow == [][ResponsesKept]_vars /\ []RegisteredIsRouted

\* r1 was registered, has been busy and idle since, and its messages still arrive
C20_Witness ==
  /\ IsTranscript(state)
  /\ Has(state, "responses")
  /\ DOMAIN state.responses = {"r1"}
  /\ state.actives = EmptyObj
  /\ state.items = <<[type |-> "pageBreak"], [type |-> "pageBreak"]>>
  /\ \E m \in StreamEvents : Names(m, "r1") /\ Len(dispatch(state, m).items) = 3

====
